---- MODULE Spec2Model ----
(***************************************************************************)
(* FeatBench: the container and image cache manager                        *)
(* (docker_agent/container/cache_manager.py) run against one local Docker  *)
(* daemon, the script that pulls prebuilt images into that daemon          *)
(* (scripts/pull_images.py), and the release-analysis cache                *)
(* (data_collect/release_analyzer.py).                                     *)
(*                                                                         *)
(* Strings are sequences of one-character tokens ("featbench_" and         *)
(* "img://build/" are single tokens that no repository name contains), so  *)
(* that str.replace, str.lower and the f-strings are computed, not         *)
(* assumed.                                                                *)
(*                                                                         *)
(* A container handle is a reference to the daemon's container of that     *)
(* name; its status is the status the daemon reports for that container.   *)
(***************************************************************************)
EXTENDS Integers, Sequences, FiniteSets, TLC

VARIABLES
    containers,  \* daemon: container name -> status ("absent" when none)
    images,      \* daemon: the image references that exist
    mgr,         \* per caller: the CacheManager instance it holds
    pc,          \* per caller: its position in the manager's code
    ret,         \* per caller: value returned (or raised) by the last call
    calls,       \* per caller: daemon / build calls issued through its manager
    committed,   \* history: <<repo, repo_id>> of the last manager whose commit succeeded
    \* scripts/pull_images.py, one run of main() after another
    dataset,     \* the instances of the dataset file
    args,        \* [dry_run, concurrency] of the current run
    run,         \* 0 before the first run, then the number of the current run
    tasks,       \* per image of the run: [st, success, message] of its _process_one
    dlog,        \* per image of the run: the daemon calls its _process_one issued
    reported,    \* the results the main loop printed, in order
    failed,      \* main's list `failed`
    main,        \* position of main()
    exit_code,   \* exit status of the run (-1 while it runs)
    first_ok,    \* history: images run 1 processed with success, not as a dry run
    \* data_collect/release_analyzer.py, one analyze_release call after another
    cache_file,  \* ANALYSIS_CACHE_FILE: [state, entries]
    last,        \* the last analyze_release call: its arguments and what it did
    stored       \* history: key -> analysis returned by a call that wrote the file

cacheVars == <<containers, images, mgr, pc, ret, calls, committed>>

pullVars == <<dataset, args, run, tasks, dlog, reported, failed, main,
              exit_code, first_ok>>

relVars == <<cache_file, last, stored>>

scriptVars == <<pullVars, relVars>>

vars == <<cacheVars, scriptVars>>

\* No script has been started.
PullIdle ==
    /\ dataset = {}
    /\ args = [dry_run |-> FALSE, concurrency |-> 1]
    /\ run = 0
    /\ tasks = <<>>
    /\ dlog = <<>>
    /\ reported = <<>>
    /\ failed = <<>>
    /\ main = "idle"
    /\ exit_code = -1
    /\ first_ok = {}

\* No release has been analysed and there is no cache file.
RelIdle ==
    /\ cache_file = [state |-> "missing", entries |-> <<>>]
    /\ last = [op |-> "none"]
    /\ stored = <<>>

ScriptsIdle == PullIdle /\ RelIdle

----------------------------------------------------------------------------
(* Bound of the model *)

\* Number of task ids the callers use.
NumTasks == 2

----------------------------------------------------------------------------
(* Inputs *)

Procs == {1}

RepoNames == { <<"o", "/", "d">>, <<"P", "/", "q">> }

\* repo_id: the task ids "1", "2", ...
TaskIds == { ToString(i) : i \in 1..NumTasks }

\* Statuses the daemon reports for an existing container.
AbnormalStatuses == { "created", "paused" }

ExistingStatuses == { "running", "exited" } \cup AbnormalStatuses

Statuses == { "absent" } \cup ExistingStatuses

----------------------------------------------------------------------------
(* Key derivation: CacheManager.__init__ and the image-name f-strings *)

\* str.replace(old, new) for one-character old and new
Replace(s, old, new) == [i \in DOMAIN s |-> IF s[i] = old THEN new ELSE s[i]]

LowerChar(c) ==
    CASE c = "O" -> "o"
      [] c = "D" -> "d"
      [] c = "P" -> "p"
      [] c = "Q" -> "q"
      [] OTHER -> c

\* str.lower()
Lower(s) == [i \in DOMAIN s |-> LowerChar(s[i])]

\* (variant: every repository gets the same container name)
ContainerKey_Shared(repo) == <<"e", "n", "v">>

\* self.repo = repo.replace("/", "_")
ContainerKey(repo) == Replace(repo, "/", "_")

\* (variant: the image namespace keeps the case of the container key)
RepoLower_CaseKept(repo) == ContainerKey(repo)

\* self.repo_lower = self.repo.lower()
RepoLower(repo) == Lower(ContainerKey(repo))

\* CacheManager(repo, repo_id)
NewManager(repo, repo_id) ==
    [repo |-> ContainerKey(repo), repo_id |-> repo_id, repo_lower |-> RepoLower(repo)]

NoManager == [repo |-> <<>>, repo_id |-> "", repo_lower |-> <<>>]

\* image_name = f"featbench_{self.repo_lower}:{self.repo_id}"   (check_cached_image)
CachedImageName(m) == <<"featbench_">> \o m.repo_lower \o <<":", m.repo_id>>

\* (variant: the container key is used without lower-casing)
RunImageName_NotLowered(m) == <<"featbench_">> \o m.repo \o <<":", m.repo_id>>

\* image = image_name in create_container_from_cached_image
RunImageName(m) == <<"featbench_">> \o m.repo_lower \o <<":", m.repo_id>>

\* (variant: the commit target is built from self.repo, not self.repo_lower)
CommitImageName_NotLowered(m) == (<<"featbench_">> \o m.repo) \o <<":">> \o <<m.repo_id>>

\* (variant: the image is committed under the tag "latest", as the log line says)
CommitImageName_Latest(m) == (<<"featbench_">> \o m.repo_lower) \o <<":">> \o <<"latest">>

\* container.commit(repository=f"featbench_{self.repo_lower}", tag=self.repo_id):
\* the daemon names the committed image repository:tag
CommitImageName(m) == (<<"featbench_">> \o m.repo_lower) \o <<":">> \o <<m.repo_id>>

\* Build Trigger: the image reference image_builder.build_image(self.repo) returns
BuildRef(key) == <<"img://build/">> \o key

ContainerKeys == { ContainerKey(r) : r \in RepoNames }

\* The image keys the managers of the model look up.
CachedImageRefs ==
    { CachedImageName(NewManager(r, t)) : r \in RepoNames, t \in TaskIds }

----------------------------------------------------------------------------
(* Values returned or raised *)

NoneV == [kind |-> "None", v |-> <<>>]
TrueV == [kind |-> "True", v |-> <<>>]
FalseV == [kind |-> "False", v |-> <<>>]
Handle(name) == [kind |-> "Container", v |-> name]
ImageId(ref) == [kind |-> "ImageId", v |-> ref]
Raised(e) == [kind |-> "raise", v |-> <<e>>]

IsHandle(x) == x.kind = "Container"
IsRaised(x) == x.kind = "raise"

\* One entry of the call log.
Call(op, name, image, res) == [op |-> op, name |-> name, image |-> image, res |-> res]

Log(p, c) == [calls EXCEPT ![p] = Append(@, c)]

----------------------------------------------------------------------------

Init ==
    /\ containers \in [ContainerKeys -> Statuses]
    /\ images \in SUBSET CachedImageRefs
    /\ mgr = [p \in Procs |-> NoManager]
    /\ pc = [p \in Procs |-> "none"]
    /\ ret = [p \in Procs |-> NoneV]
    /\ calls = [p \in Procs |-> <<>>]
    /\ committed = <<>>
    /\ ScriptsIdle

\* CacheManager.__init__; the caller keeps the container handle it holds, if any
Construct(p) ==
    /\ pc[p] \in {"none", "acq_done", "ckpt_done"}
    /\ \E r \in RepoNames, t \in TaskIds :
          mgr' = [mgr EXCEPT ![p] = NewManager(r, t)]
    /\ pc' = [pc EXCEPT ![p] = "ready"]
    /\ calls' = [calls EXCEPT ![p] = <<>>]
    /\ ret' = [ret EXCEPT ![p] = IF IsHandle(@) THEN @ ELSE NoneV]
    /\ UNCHANGED <<containers, images, committed>>
    /\ UNCHANGED scriptVars

InAcquire(p) ==
    pc[p] \in {"cc_get", "cc_start", "cc_remove", "cc_ret", "ci_get", "ci_ret",
               "cf_run", "cn_build", "cn_run"}

\* An acquire is running or its result is being handed to the caller.
InCall(p) == InAcquire(p) \/ pc[p] = "acq_done"

----------------------------------------------------------------------------
(* check_cached_container *)

\* (variant: an exited container is returned without being started)
StatusBranch_ExitedReturned(status) ==
    IF status \in {"running", "exited"} THEN "return" ELSE "remove"

\* (variant: a running container is started again)
StatusBranch_RunningRestarted(status) ==
    IF status \in {"running", "exited"} THEN "start" ELSE "remove"

\* (variant: an exited container is removed like an abnormal one)
StatusBranch_ExitedRemoved(status) ==
    IF status = "running" THEN "return" ELSE "remove"

\* (variant: only a dead container is removed, any other one is started)
StatusBranch_AbnormalStarted(status) ==
    IF status = "running" THEN "return"
    ELSE IF status = "dead" THEN "remove"
    ELSE "start"

\* (variant: a running container is removed and recreated)
StatusBranch_RunningRemoved(status) ==
    IF status = "exited" THEN "start" ELSE "remove"

\* the if / elif / else on container.status
StatusBranch(status) ==
    IF status = "running" THEN "return"
    ELSE IF status = "exited" THEN "start"
    ELSE "remove"

\* (variant: the handlers let the exception out)
ContainerLookupFailed_Raised(e) == Raised(e)

\* except docker.errors.NotFound / except Exception: both return None
ContainerLookupFailed(e) == NoneV

\* container = self.client.containers.get(self.repo), then the branch on its status
CC_Get(p) ==
    /\ pc[p] = "cc_get"
    /\ LET k == mgr[p].repo
           st == containers[k]
       IN \E fault \in BOOLEAN :
            IF fault
            THEN /\ calls' = Log(p, Call("get_container", k, <<>>, "error"))
                 /\ ret' = [ret EXCEPT ![p] = ContainerLookupFailed("Exception")]
                 /\ pc' = [pc EXCEPT ![p] = "cc_ret"]
            ELSE IF st = "absent"
            THEN /\ calls' = Log(p, Call("get_container", k, <<>>, "not_found"))
                 /\ ret' = [ret EXCEPT ![p] = ContainerLookupFailed("NotFound")]
                 /\ pc' = [pc EXCEPT ![p] = "cc_ret"]
            ELSE /\ calls' = Log(p, Call("get_container", k, <<>>, st))
                 /\ IF StatusBranch(st) = "return"
                    THEN /\ ret' = [ret EXCEPT ![p] = Handle(k)]
                         /\ pc' = [pc EXCEPT ![p] = "cc_ret"]
                    ELSE IF StatusBranch(st) = "start"
                    THEN /\ ret' = ret
                         /\ pc' = [pc EXCEPT ![p] = "cc_start"]
                    ELSE /\ ret' = ret
                         /\ pc' = [pc EXCEPT ![p] = "cc_remove"]
    /\ UNCHANGED <<containers, images, mgr, committed>>
    /\ UNCHANGED scriptVars

\* container.start(); return container
CC_Start(p) ==
    /\ pc[p] = "cc_start"
    /\ LET k == mgr[p].repo
       IN \E fault \in BOOLEAN :
            IF fault
            THEN /\ calls' = Log(p, Call("start", k, <<>>, "error"))
                 /\ ret' = [ret EXCEPT ![p] = ContainerLookupFailed("Exception")]
                 /\ UNCHANGED containers
            ELSE IF containers[k] = "absent"
            THEN /\ calls' = Log(p, Call("start", k, <<>>, "not_found"))
                 /\ ret' = [ret EXCEPT ![p] = ContainerLookupFailed("NotFound")]
                 /\ UNCHANGED containers
            ELSE /\ calls' = Log(p, Call("start", k, <<>>, "ok"))
                 /\ containers' = [containers EXCEPT ![k] = "running"]
                 /\ ret' = [ret EXCEPT ![p] = Handle(k)]
    /\ pc' = [pc EXCEPT ![p] = "cc_ret"]
    /\ UNCHANGED <<images, mgr, committed>>
    /\ UNCHANGED scriptVars

\* container.remove(force=True); return None
CC_Remove(p) ==
    /\ pc[p] = "cc_remove"
    /\ LET k == mgr[p].repo
       IN \E fault \in BOOLEAN :
            IF fault
            THEN /\ calls' = Log(p, Call("remove", k, <<>>, "error"))
                 /\ ret' = [ret EXCEPT ![p] = ContainerLookupFailed("Exception")]
                 /\ UNCHANGED containers
            ELSE IF containers[k] = "absent"
            THEN /\ calls' = Log(p, Call("remove", k, <<>>, "not_found"))
                 /\ ret' = [ret EXCEPT ![p] = ContainerLookupFailed("NotFound")]
                 /\ UNCHANGED containers
            ELSE /\ calls' = Log(p, Call("remove", k, <<>>, "ok"))
                 /\ containers' = [containers EXCEPT ![k] = "absent"]
                 /\ ret' = [ret EXCEPT ![p] = NoneV]
    /\ pc' = [pc EXCEPT ![p] = "cc_ret"]
    /\ UNCHANGED <<images, mgr, committed>>
    /\ UNCHANGED scriptVars

----------------------------------------------------------------------------
(* check_cached_image *)

\* except docker.errors.ImageNotFound / except Exception: both return False
ImageLookupFailed(e) == FalseV

\* (variant: an image this process committed is taken to be still there)
ImageExists_Remembered(p) ==
    \/ CachedImageName(mgr[p]) \in images
    \/ committed = <<mgr[p].repo, mgr[p].repo_id>>

\* self.client.images.get(image_name) finds the image at the daemon
ImageExists(p) == CachedImageName(mgr[p]) \in images

\* try: self.client.images.get(image_name); return True
CI_Get(p) ==
    /\ pc[p] = "ci_get"
    /\ LET ref == CachedImageName(mgr[p])
       IN \E fault \in BOOLEAN :
            IF fault
            THEN /\ calls' = Log(p, Call("get_image", <<>>, ref, "error"))
                 /\ ret' = [ret EXCEPT ![p] = ImageLookupFailed("Exception")]
            ELSE IF ~ImageExists(p)
            THEN /\ calls' = Log(p, Call("get_image", <<>>, ref, "not_found"))
                 /\ ret' = [ret EXCEPT ![p] = ImageLookupFailed("ImageNotFound")]
            ELSE /\ calls' = Log(p, Call("get_image", <<>>, ref, "ok"))
                 /\ ret' = [ret EXCEPT ![p] = TrueV]
    /\ pc' = [pc EXCEPT ![p] = "ci_ret"]
    /\ UNCHANGED <<containers, images, mgr, committed>>
    /\ UNCHANGED scriptVars

----------------------------------------------------------------------------
(* create_container_from_cached_image / create_new_container *)

\* Outcome of client.containers.run(image=image, name=name, ...) at the daemon:
\* the image must exist and the name must be free.
RunOutcome(image, name, fault) ==
    IF fault THEN "error"
    ELSE IF image \notin images THEN "image_not_found"
    ELSE IF containers[name] # "absent" THEN "conflict"
    ELSE "ok"

\* self.client.containers.run(image=..., **self.common_container_config):
\* "name": self.repo; nothing is caught, so a failure propagates.
RunContainer(p, image) ==
    LET k == mgr[p].repo
    IN \E fault \in BOOLEAN :
         LET out == RunOutcome(image, k, fault)
         IN /\ calls' = Log(p, Call("run", k, image, out))
            /\ IF out = "ok"
               THEN /\ containers' = [containers EXCEPT ![k] = "running"]
                    /\ ret' = [ret EXCEPT ![p] = Handle(k)]
               ELSE /\ UNCHANGED containers
                    /\ ret' = [ret EXCEPT ![p] = Raised(out)]

CF_Run(p) ==
    /\ pc[p] = "cf_run"
    /\ RunContainer(p, RunImageName(mgr[p]))
    /\ pc' = [pc EXCEPT ![p] = "acq_done"]
    /\ UNCHANGED <<images, mgr, committed>>
    /\ UNCHANGED scriptVars

\* (variant: the builder's failure is wrapped like a commit failure)
BuildFailed_AsCacheError(e) == Raised("CacheError")

\* create_new_container has no try/except: what build_image raises propagates
BuildFailed(e) == Raised(e)

\* image_name = self.image_builder.build_image(self.repo)
CN_Build(p) ==
    /\ pc[p] = "cn_build"
    /\ LET k == mgr[p].repo
       IN \E ok \in BOOLEAN :
            IF ok
            THEN /\ calls' = Log(p, Call("build", k, BuildRef(k), "ok"))
                 /\ images' = images \cup {BuildRef(k)}
                 /\ ret' = [ret EXCEPT ![p] = ImageId(BuildRef(k))]
                 /\ pc' = [pc EXCEPT ![p] = "cn_run"]
            ELSE /\ calls' = Log(p, Call("build", k, <<>>, "error"))
                 /\ images' = images
                 /\ ret' = [ret EXCEPT ![p] = BuildFailed("BuildFailure")]
                 /\ pc' = [pc EXCEPT ![p] = "acq_done"]
    /\ UNCHANGED <<containers, mgr, committed>>
    /\ UNCHANGED scriptVars

\* (variant: the cached image name is run instead of the image just built)
NewContainerImage_Cached(p) == RunImageName(mgr[p])

\* image=image_name: the reference build_image returned
NewContainerImage(p) == ret[p].v

CN_Run(p) ==
    /\ pc[p] = "cn_run"
    /\ RunContainer(p, NewContainerImage(p))
    /\ pc' = [pc EXCEPT ![p] = "acq_done"]
    /\ UNCHANGED <<images, mgr, committed>>
    /\ UNCHANGED scriptVars

----------------------------------------------------------------------------
(* save_container_as_image *)

\* (variant: the daemon's error is re-raised as it is)
CommitFailed_Reraised(e) == Raised(e)

\* except Exception as e: raise CacheError(...)
CommitFailed(e) == Raised("CacheError")

\* image = container.commit(repository=image_name, tag=self.repo_id); return image.id.
\* The daemon gives the key to the new image, whether or not the key held one.
SaveContainerAsImage(p) ==
    /\ pc[p] = "ready"
    /\ IsHandle(ret[p])
    /\ LET c == ret[p].v
           ref == CommitImageName(mgr[p])
       IN \E fault \in BOOLEAN :
            IF fault \/ containers[c] = "absent"
            THEN /\ calls' = Log(p, Call("commit", c, ref, "error"))
                 /\ ret' = [ret EXCEPT ![p] = CommitFailed("error")]
                 /\ UNCHANGED <<images, committed>>
            ELSE /\ calls' = Log(p, Call("commit", c, ref, "ok"))
                 /\ images' = images \cup {ref}
                 /\ committed' = <<mgr[p].repo, mgr[p].repo_id>>
                 /\ ret' = [ret EXCEPT ![p] = ImageId(ref)]
    /\ pc' = [pc EXCEPT ![p] = "ckpt_done"]
    /\ UNCHANGED <<containers, mgr>>
    /\ UNCHANGED scriptVars

----------------------------------------------------------------------------
(* acquireEnvironment: the caller's sequencing of the four methods *)

\* At most one acquire is in flight per container key.
Acquire_Start(p) ==
    /\ pc[p] = "ready"
    /\ \A q \in DOMAIN pc : q # p /\ InCall(q) => mgr[q].repo # mgr[p].repo
    /\ pc' = [pc EXCEPT ![p] = "cc_get"]
    /\ ret' = [ret EXCEPT ![p] = NoneV]
    /\ calls' = [calls EXCEPT ![p] = <<>>]
    /\ UNCHANGED <<containers, images, mgr, committed>>
    /\ UNCHANGED scriptVars

\* step 1 -> return the container, or step 2
Acquire_AfterContainer(p) ==
    /\ pc[p] = "cc_ret"
    /\ pc' = [pc EXCEPT ![p] = IF IsHandle(ret[p]) THEN "acq_done" ELSE "ci_get"]
    /\ UNCHANGED <<containers, images, mgr, ret, calls, committed>>
    /\ UNCHANGED scriptVars

\* step 2 -> run from the cached image, or step 3
Acquire_AfterImage(p) ==
    /\ pc[p] = "ci_ret"
    /\ pc' = [pc EXCEPT ![p] = IF ret[p] = TrueV THEN "cf_run" ELSE "cn_build"]
    /\ UNCHANGED <<containers, images, mgr, ret, calls, committed>>
    /\ UNCHANGED scriptVars

----------------------------------------------------------------------------
(* The environment *)

\* An actor outside the manager removes a container no acquire is working on.
ExternalRemove(k) ==
    /\ containers[k] # "absent"
    /\ \A p \in DOMAIN pc : InCall(p) => mgr[p].repo # k
    /\ containers' = [containers EXCEPT ![k] = "absent"]
    /\ UNCHANGED <<images, mgr, pc, ret, calls, committed>>
    /\ UNCHANGED scriptVars

----------------------------------------------------------------------------

Next ==
    \/ \E p \in DOMAIN pc : Construct(p)
    \/ \E p \in DOMAIN pc : Acquire_Start(p)
    \/ \E p \in DOMAIN pc : CC_Get(p)
    \/ \E p \in DOMAIN pc : CC_Start(p)
    \/ \E p \in DOMAIN pc : CC_Remove(p)
    \/ \E p \in DOMAIN pc : Acquire_AfterContainer(p)
    \/ \E p \in DOMAIN pc : CI_Get(p)
    \/ \E p \in DOMAIN pc : Acquire_AfterImage(p)
    \/ \E p \in DOMAIN pc : CF_Run(p)
    \/ \E p \in DOMAIN pc : CN_Build(p)
    \/ \E p \in DOMAIN pc : CN_Run(p)
    \/ \E p \in DOMAIN pc : SaveContainerAsImage(p)
    \/ \E k \in DOMAIN containers : ExternalRemove(k)

Spec == Init /\ [][Next]_vars

----------------------------------------------------------------------------
(* Key derivation on its own: managers constructed for a wider set of       *)
(* repository names, and the image names their methods compute.            *)

KeyProcs == {1, 2}

KeyRepoNames ==
    { <<"o", "c", "t", "o", "c", "a", "t", "/", "d", "e", "m", "o">>,
      <<"o", "/", "d">>,
      <<"O", "/", "d">>,
      <<"P", "/", "q">>,
      <<"o", "/", "d", "_", "q">>,
      <<"o", "_", "d", "/", "q">> }

KeyTaskIds == { "1", "42" }

KeysInit ==
    /\ containers = [k \in {} |-> "absent"]
    /\ images = {}
    /\ mgr = [p \in KeyProcs |-> NoManager]
    /\ pc = [p \in KeyProcs |-> "none"]
    /\ ret = [p \in KeyProcs |-> NoneV]
    /\ calls = [p \in KeyProcs |-> <<>>]
    /\ committed = <<>>
    /\ ScriptsIdle

\* CacheManager(repo, repo_id); the arguments are kept as the first log entry
K_Construct(p) ==
    /\ pc[p] \in {"none", "k_done"}
    /\ \E r \in KeyRepoNames, t \in KeyTaskIds :
          /\ mgr' = [mgr EXCEPT ![p] = NewManager(r, t)]
          /\ calls' = [calls EXCEPT ![p] = <<Call("init", r, <<t>>, "ok")>>]
    /\ pc' = [pc EXCEPT ![p] = "k_ready"]
    /\ UNCHANGED <<containers, images, ret, committed>>
    /\ UNCHANGED scriptVars

\* The image names check_cached_image, create_container_from_cached_image and
\* save_container_as_image hand to the daemon.
K_Names(p) ==
    /\ pc[p] = "k_ready"
    /\ calls' = [calls EXCEPT ![p] =
                    @ \o << Call("get_image", <<>>, CachedImageName(mgr[p]), "name"),
                            Call("run", mgr[p].repo, RunImageName(mgr[p]), "name"),
                            Call("commit", mgr[p].repo, CommitImageName(mgr[p]), "name") >>]
    /\ pc' = [pc EXCEPT ![p] = "k_done"]
    /\ UNCHANGED <<containers, images, mgr, ret, committed>>
    /\ UNCHANGED scriptVars

KeysNext ==
    \/ \E p \in DOMAIN pc : K_Construct(p)
    \/ \E p \in DOMAIN pc : K_Names(p)

SpecKeys == KeysInit /\ [][KeysNext]_vars

----------------------------------------------------------------------------
(* Two acquires in flight at once, for repositories with different          *)
(* container keys.                                                          *)

ConcProcs == {1, 2}

\* The repositories of caller 1 and caller 2; the second pair differs in case
\* only, so both managers use the same image key.
ConcPairs ==
    { << <<"o", "/", "d">>, <<"P", "/", "q">> >>,
      << <<"O", "/", "d">>, <<"o", "/", "d">> >> }

ConcInit ==
    /\ \E pair \in ConcPairs, t \in TaskIds :
          mgr = [p \in ConcProcs |-> NewManager(pair[p], t)]
    /\ containers \in [{ mgr[p].repo : p \in ConcProcs } -> Statuses]
    /\ images \in SUBSET { CachedImageName(mgr[p]) : p \in ConcProcs }
    /\ pc = [p \in ConcProcs |-> "ready"]
    /\ ret = [p \in ConcProcs |-> NoneV]
    /\ calls = [p \in ConcProcs |-> <<>>]
    /\ committed = <<>>
    /\ ScriptsIdle

ConcNext ==
    \/ \E p \in DOMAIN pc : Acquire_Start(p)
    \/ \E p \in DOMAIN pc : CC_Get(p)
    \/ \E p \in DOMAIN pc : CC_Start(p)
    \/ \E p \in DOMAIN pc : CC_Remove(p)
    \/ \E p \in DOMAIN pc : Acquire_AfterContainer(p)
    \/ \E p \in DOMAIN pc : CI_Get(p)
    \/ \E p \in DOMAIN pc : Acquire_AfterImage(p)
    \/ \E p \in DOMAIN pc : CF_Run(p)
    \/ \E p \in DOMAIN pc : CN_Build(p)
    \/ \E p \in DOMAIN pc : CN_Run(p)

SpecConc == ConcInit /\ [][ConcNext]_vars

----------------------------------------------------------------------------
(* The daemon changed from outside between two calls of the manager         *)

\* One manager, constructed, with the daemon in any state for its keys.
ExtInit ==
    /\ \E r \in RepoNames, t \in TaskIds : mgr = [p \in Procs |-> NewManager(r, t)]
    /\ containers \in [{ mgr[p].repo : p \in Procs } -> Statuses]
    /\ images \in SUBSET { CachedImageName(mgr[p]) : p \in Procs }
    /\ pc = [p \in Procs |-> "ready"]
    /\ ret = [p \in Procs |-> NoneV]
    /\ calls = [p \in Procs |-> <<>>]
    /\ committed = <<>>
    /\ ScriptsIdle

\* The caller is back from a call on the manager and may make the next one on
\* the same instance; it still holds a container handle it was given.
NextCall(p) ==
    /\ pc[p] \in {"acq_done", "ckpt_done"}
    /\ pc' = [pc EXCEPT ![p] = "ready"]
    /\ ret' = [ret EXCEPT ![p] = IF IsHandle(ret[p]) THEN ret[p] ELSE NoneV]
    /\ calls' = [calls EXCEPT ![p] = <<>>]
    /\ UNCHANGED <<containers, images, mgr, committed>>
    /\ UNCHANGED scriptVars

\* Every manager is between two of its calls.
Quiet == \A p \in DOMAIN pc : pc[p] = "ready"

\* docker stop by another actor
ExternalStop(k) ==
    /\ Quiet
    /\ containers[k] = "running"
    /\ containers' = [containers EXCEPT ![k] = "exited"]
    /\ UNCHANGED <<images, mgr, pc, ret, calls, committed>>
    /\ UNCHANGED scriptVars

\* docker create / run under the same name by another actor
ExternalCreate(k) ==
    /\ Quiet
    /\ containers[k] = "absent"
    /\ \E st \in ExistingStatuses : containers' = [containers EXCEPT ![k] = st]
    /\ UNCHANGED <<images, mgr, pc, ret, calls, committed>>
    /\ UNCHANGED scriptVars

\* docker pull / tag by another actor
ExternalAddImage(ref) ==
    /\ Quiet
    /\ ref \notin images
    /\ images' = images \cup {ref}
    /\ UNCHANGED <<containers, mgr, pc, ret, calls, committed>>
    /\ UNCHANGED scriptVars

\* docker rmi by another actor
ExternalRemoveImage(ref) ==
    /\ Quiet
    /\ ref \in images
    /\ images' = images \ {ref}
    /\ UNCHANGED <<containers, mgr, pc, ret, calls, committed>>
    /\ UNCHANGED scriptVars

ExtNext ==
    \/ \E p \in DOMAIN pc : NextCall(p)
    \/ \E p \in DOMAIN pc : Acquire_Start(p)
    \/ \E p \in DOMAIN pc : CC_Get(p)
    \/ \E p \in DOMAIN pc : CC_Start(p)
    \/ \E p \in DOMAIN pc : CC_Remove(p)
    \/ \E p \in DOMAIN pc : Acquire_AfterContainer(p)
    \/ \E p \in DOMAIN pc : CI_Get(p)
    \/ \E p \in DOMAIN pc : Acquire_AfterImage(p)
    \/ \E p \in DOMAIN pc : CF_Run(p)
    \/ \E p \in DOMAIN pc : CN_Build(p)
    \/ \E p \in DOMAIN pc : CN_Run(p)
    \/ \E p \in DOMAIN pc : SaveContainerAsImage(p)
    \/ \E k \in DOMAIN containers : ExternalRemove(k)
    \/ \E k \in DOMAIN containers : ExternalStop(k)
    \/ \E k \in DOMAIN containers : ExternalCreate(k)
    \/ \E p \in DOMAIN pc : ExternalAddImage(CachedImageName(mgr[p]))
    \/ \E ref \in images : ExternalRemoveImage(ref)

SpecExt == ExtInit /\ [][ExtNext]_vars

----------------------------------------------------------------------------
(* scripts/pull_images.py: the names it computes *)

\* Number of parallel pulls the runs are started with (--concurrency 1..MaxWorkers).
MaxWorkers == 2

\* Number of instances in the dataset file.
MaxInstances == 2

\* Number of runs of the script, one after the other.
MaxRuns == 2

\* A dataset instance; a key that is missing or None is <<>> (0 for the number).
Instance(docker_image, repo, number) ==
    [docker_image |-> docker_image, repo |-> repo, number |-> number]

InstancePool ==
    { Instance(<<>>, <<"o", "/", "d">>, 1),
      Instance(<<>>, <<"O", "/", "d">>, 1),
      Instance(<<>>, <<"P", "/", "q">>, 2),
      Instance(<<"g", "/", "x", ":", "1">>, <<"o", "/", "d">>, 1),
      Instance(<<"b">>, <<>>, 0),
      Instance(<<>>, <<"o", "/", "d">>, 0) }

Datasets == { d \in SUBSET InstancePool : Cardinality(d) <= MaxInstances }

\* (variant: the script keeps the case of the repository name)
ImageShort_CaseKept(repo, number) ==
    <<"featbench_">> \o Replace(repo, "/", "_") \o <<":", ToString(number)>>

\* image_short = f"featbench_{repo.replace('/', '_').lower()}:{number}"
ImageShort(repo, number) ==
    <<"featbench_">> \o Lower(Replace(repo, "/", "_")) \o <<":", ToString(number)>>

\* parse_dataset_for_images: docker_image when it is set, else the computed
\* name when repo and number are both truthy, else nothing.
ParseDataset(d) ==
    { i.docker_image : i \in { j \in d : j.docker_image # <<>> } }
    \cup { ImageShort(i.repo, i.number) :
             i \in { j \in d : j.docker_image = <<>> /\ j.repo # <<>> /\ j.number # 0 } }

\* c in s
Contains(s, c) == \E i \in DOMAIN s : s[i] = c

\* build_remote_name: a name with "/" that does not start with "featbench_" is
\* taken as it is, any other one gets the registry prefix.
BuildRemoteName(short_image) ==
    IF Contains(short_image, "/") /\ short_image[1] # "featbench_"
    THEN short_image
    ELSE <<"ghcr.io/kndy666", "/">> \o short_image

\* local_image.split(":", 1): the part before the first ":" and the rest
SplitTag(local_image) ==
    LET i == CHOOSE j \in DOMAIN local_image :
                 /\ local_image[j] = ":"
                 /\ \A k \in 1..(j - 1) : local_image[k] # ":"
    IN << SubSeq(local_image, 1, i - 1),
          SubSeq(local_image, i + 1, Len(local_image)) >>

\* (variant: the tag is given to the repository alone, so the daemon files it
\* under "latest")
TaggedRef_NoTag(local_image) == SplitTag(local_image)[1] \o <<":", "latest">>

\* image.tag(repository=repo, tag=tag): the reference the daemon creates
TaggedRef(local_image) ==
    SplitTag(local_image)[1] \o <<":">> \o SplitTag(local_image)[2]

\* Code points of the characters of the names ("featbench_" sorts as its "f").
CodePoint(c) ==
    CASE c = "/" -> 47 [] c = "0" -> 48 [] c = "1" -> 49 [] c = "2" -> 50
      [] c = "3" -> 51 [] c = ":" -> 58 [] c = "_" -> 95 [] c = "b" -> 98
      [] c = "d" -> 100 [] c = "featbench_" -> 102 [] c = "g" -> 103
      [] c = "o" -> 111 [] c = "p" -> 112 [] c = "q" -> 113 [] c = "x" -> 120
      [] OTHER -> 0

\* a < b for strings
RECURSIVE StrLess(_, _)
StrLess(a, b) ==
    IF b = <<>> THEN FALSE
    ELSE IF a = <<>> THEN TRUE
    ELSE IF CodePoint(Head(a)) # CodePoint(Head(b))
         THEN CodePoint(Head(a)) < CodePoint(Head(b))
         ELSE StrLess(Tail(a), Tail(b))

----------------------------------------------------------------------------
(* scripts/pull_images.py: main() and the _process_one tasks of its pool *)

ArgsSet == [dry_run : BOOLEAN, concurrency : 1..MaxWorkers]

\* A future of the pool: not started, inside _process_one, or finished with a
\* result ("done") or with an exception ("raised").
Queued == [st |-> "queued", success |-> FALSE, message |-> ""]
Done(success, message) == [st |-> "done", success |-> success, message |-> message]
RaisedInTask == [st |-> "raised", success |-> FALSE, message |-> ""]

DCall(op, ref, res) == [op |-> op, ref |-> ref, res |-> res]

PullInit ==
    /\ dataset \in Datasets
    /\ args \in ArgsSet
    /\ run = 0
    /\ tasks = <<>>
    /\ dlog = <<>>
    /\ reported = <<>>
    /\ failed = <<>>
    /\ main = "idle"
    /\ exit_code = -1
    /\ first_ok = {}
    /\ RelIdle
    /\ containers = [k \in ContainerKeys |-> "absent"]
    /\ images \in SUBSET ParseDataset(dataset)
    /\ mgr = [p \in Procs |-> NoManager]
    /\ pc = [p \in Procs |-> "none"]
    /\ ret = [p \in Procs |-> NoneV]
    /\ calls = [p \in Procs |-> <<>>]
    /\ committed = <<>>

\* main() up to the submission of the tasks: sys.exit(2) when the daemon does
\* not answer the ping, sys.exit(0) when the dataset gives no image.
M_Start ==
    /\ main = "idle"
    /\ run < MaxRuns
    /\ run' = run + 1
    /\ \E available \in BOOLEAN :
          IF ~args.dry_run /\ ~available
          THEN /\ main' = "exited"
               /\ exit_code' = 2
               /\ tasks' = <<>>
               /\ dlog' = <<>>
          ELSE IF ParseDataset(dataset) = {}
          THEN /\ main' = "exited"
               /\ exit_code' = 0
               /\ tasks' = <<>>
               /\ dlog' = <<>>
          ELSE /\ main' = "loop"
               /\ exit_code' = -1
               /\ tasks' = [img \in ParseDataset(dataset) |-> Queued]
               /\ dlog' = [img \in ParseDataset(dataset) |-> <<>>]
    /\ reported' = <<>>
    /\ failed' = <<>>
    /\ UNCHANGED <<dataset, args, first_ok, cacheVars>>
    /\ UNCHANGED relVars

\* The tasks a worker thread is executing.
InWorker == { img \in DOMAIN tasks : tasks[img].st \in {"get", "pull", "tag"} }

\* The queued task that was submitted first: executor.submit in sorted order.
NextQueued(img) ==
    /\ tasks[img].st = "queued"
    /\ \A other \in DOMAIN tasks :
          tasks[other].st = "queued" => ~StrLess(other, img)

\* A free worker takes the next task; _process_one up to the first daemon call.
P_Start(img) ==
    /\ main \in {"loop", "unwinding"}
    /\ NextQueued(img)
    /\ Cardinality(InWorker) < args.concurrency
    /\ tasks' = [tasks EXCEPT ![img] =
                    IF ~Contains(img, ":")
                    THEN Done(FALSE, "invalid image (no tag found)")
                    ELSE IF args.dry_run
                    THEN Done(TRUE, "dry-run")
                    ELSE [Queued EXCEPT !.st = "get"]]
    /\ UNCHANGED <<dataset, args, run, dlog, reported, failed, main, exit_code,
                   first_ok, cacheVars>>
    /\ UNCHANGED relVars

\* docker_client.images.get(short_image): only ImageNotFound is caught
P_Get(img) ==
    /\ tasks[img].st = "get"
    /\ \E fault \in BOOLEAN :
          IF fault
          THEN /\ dlog' = [dlog EXCEPT ![img] = Append(@, DCall("get", img, "error"))]
               /\ tasks' = [tasks EXCEPT ![img] = RaisedInTask]
          ELSE IF img \in images
          THEN /\ dlog' = [dlog EXCEPT ![img] = Append(@, DCall("get", img, "found"))]
               /\ tasks' = [tasks EXCEPT ![img] = Done(TRUE, "local image already present")]
          ELSE /\ dlog' = [dlog EXCEPT ![img] = Append(@, DCall("get", img, "not_found"))]
               /\ tasks' = [tasks EXCEPT ![img].st = "pull"]
    /\ UNCHANGED <<dataset, args, run, reported, failed, main, exit_code,
                   first_ok, cacheVars>>
    /\ UNCHANGED relVars

\* pull_image(docker_client, remote): APIError gives False, anything else
\* leaves _process_one as an exception
P_Pull(img) ==
    /\ tasks[img].st = "pull"
    /\ LET remote == BuildRemoteName(img)
       IN \E out \in {"ok", "api_error", "error"} :
            /\ dlog' = [dlog EXCEPT ![img] = Append(@, DCall("pull", remote, out))]
            /\ images' = IF out = "ok" THEN images \cup {remote} ELSE images
            /\ tasks' = [tasks EXCEPT ![img] =
                            IF out = "ok" THEN [Queued EXCEPT !.st = "tag"]
                            ELSE IF out = "api_error" THEN Done(FALSE, "failed to pull")
                            ELSE RaisedInTask]
    /\ UNCHANGED <<dataset, args, run, reported, failed, main, exit_code, first_ok,
                   containers, mgr, pc, ret, calls, committed>>
    /\ UNCHANGED relVars

\* tag_local(docker_client, remote, short_image): ImageNotFound and APIError
\* give False, anything else leaves _process_one as an exception
P_Tag(img) ==
    /\ tasks[img].st = "tag"
    /\ LET remote == BuildRemoteName(img)
       IN \E out \in {"ok", "api_error", "error"} :
            LET res == IF out = "ok" /\ remote \notin images THEN "not_found" ELSE out
            IN /\ dlog' = [dlog EXCEPT ![img] = Append(@, DCall("tag", TaggedRef(img), res))]
               /\ images' = IF res = "ok" THEN images \cup {TaggedRef(img)} ELSE images
               /\ tasks' = [tasks EXCEPT ![img] =
                               IF res = "ok" THEN Done(TRUE, "pulled, retagged")
                               ELSE IF res = "error" THEN RaisedInTask
                               ELSE Done(FALSE, "failed to tag")]
    /\ UNCHANGED <<dataset, args, run, reported, failed, main, exit_code, first_ok,
                   containers, mgr, pc, ret, calls, committed>>
    /\ UNCHANGED relVars

\* The images whose result the loop has taken.
Taken == { reported[i][1] : i \in DOMAIN reported }

\* One turn of `for future in as_completed(...)`: future.result() of a finished
\* future gives the tuple, which is printed (and appended to failed), or
\* raises what _process_one raised, which ends the loop and main().
M_Report(img) ==
    /\ main = "loop"
    /\ img \in DOMAIN tasks
    /\ img \notin Taken
    /\ tasks[img].st \in {"done", "raised"}
    /\ IF tasks[img].st = "done"
       THEN /\ reported' = Append(reported, <<img, tasks[img].success>>)
            /\ failed' = IF tasks[img].success THEN failed
                         ELSE Append(failed, <<img, tasks[img].message>>)
            /\ main' = "loop"
       ELSE /\ UNCHANGED <<reported, failed>>
            /\ main' = "unwinding"
    /\ UNCHANGED <<dataset, args, run, tasks, dlog, exit_code, first_ok, cacheVars>>
    /\ UNCHANGED relVars

\* After the loop: sys.exit(1) when failed is not empty, else the end of main().
M_Summary ==
    /\ main = "loop"
    /\ Taken = DOMAIN tasks
    /\ main' = "exited"
    /\ exit_code' = IF failed # <<>> THEN 1 ELSE 0
    /\ UNCHANGED <<dataset, args, run, tasks, dlog, reported, failed, first_ok, cacheVars>>
    /\ UNCHANGED relVars

\* The exception leaves the `with` block, which waits for the submitted
\* tasks, and then the interpreter: traceback, exit status 1.
M_Unwind ==
    /\ main = "unwinding"
    /\ \A img \in DOMAIN tasks : tasks[img].st \in {"done", "raised"}
    /\ main' = "exited"
    /\ exit_code' = 1
    /\ UNCHANGED <<dataset, args, run, tasks, dlog, reported, failed, first_ok, cacheVars>>
    /\ UNCHANGED relVars

\* The script is started again on the same dataset, with any arguments.
M_Rerun ==
    /\ main = "exited"
    /\ run < MaxRuns
    /\ main' = "idle"
    /\ exit_code' = -1
    /\ args' \in ArgsSet
    /\ first_ok' = IF run = 1
                   THEN { img \in DOMAIN tasks :
                            tasks[img].st = "done" /\ tasks[img].success /\ ~args.dry_run }
                   ELSE first_ok
    /\ tasks' = <<>>
    /\ dlog' = <<>>
    /\ reported' = <<>>
    /\ failed' = <<>>
    /\ UNCHANGED <<dataset, run, cacheVars>>
    /\ UNCHANGED relVars

PullNext ==
    \/ M_Start
    \/ \E img \in DOMAIN tasks : P_Start(img)
    \/ \E img \in DOMAIN tasks : P_Get(img)
    \/ \E img \in DOMAIN tasks : P_Pull(img)
    \/ \E img \in DOMAIN tasks : P_Tag(img)
    \/ \E img \in DOMAIN tasks : M_Report(img)
    \/ M_Summary
    \/ M_Unwind
    \/ M_Rerun

SpecPull == PullInit /\ [][PullNext]_vars

----------------------------------------------------------------------------
(* One run of the pull script, then an acquire through a cache manager on   *)
(* the same daemon.                                                         *)

\* The script is started without --dry-run and with --concurrency 1.
PullAcqInit ==
    /\ PullInit
    /\ args = [dry_run |-> FALSE, concurrency |-> 1]

\* The manager is constructed for an instance of the dataset.
ConstructForInstance(p) ==
    /\ main = "exited"
    /\ pc[p] = "none"
    /\ Construct(p)
    /\ \E i \in dataset : mgr'[p] = NewManager(i.repo, ToString(i.number))

PullAcqNext ==
    \/ M_Start
    \/ \E img \in DOMAIN tasks : P_Start(img)
    \/ \E img \in DOMAIN tasks : P_Get(img)
    \/ \E img \in DOMAIN tasks : P_Pull(img)
    \/ \E img \in DOMAIN tasks : P_Tag(img)
    \/ \E img \in DOMAIN tasks : M_Report(img)
    \/ M_Summary
    \/ M_Unwind
    \/ \E p \in DOMAIN pc : ConstructForInstance(p)
    \/ \E p \in DOMAIN pc : Acquire_Start(p)
    \/ \E p \in DOMAIN pc : CC_Get(p)
    \/ \E p \in DOMAIN pc : Acquire_AfterContainer(p)
    \/ \E p \in DOMAIN pc : CI_Get(p)
    \/ \E p \in DOMAIN pc : Acquire_AfterImage(p)
    \/ \E p \in DOMAIN pc : CF_Run(p)
    \/ \E p \in DOMAIN pc : CN_Build(p)
    \/ \E p \in DOMAIN pc : CN_Run(p)

SpecPullAcq == PullAcqInit /\ [][PullAcqNext]_vars

----------------------------------------------------------------------------
(* data_collect/release_analyzer.py: analyze_release and its cache file *)

\* The releases that are analysed: repository name, tag and body.
Releases ==
    { [repo_name |-> <<"o", "/", "d">>, tag_name |-> <<"v", "1">>, body |-> "notes 1"],
      [repo_name |-> <<"o", "/", "d">>, tag_name |-> <<"v", "2">>, body |-> "notes 2"],
      [repo_name |-> <<"P", "/", "q">>, tag_name |-> <<"v", "1">>, body |-> "notes 3"] }

\* What analyze_release_with_llm returns: a dict with items, the dict of empty
\* lists it returns after a failure, or parsed JSON that is no dict.
LLMResults == { "items", "empty", "not a dict" }

\* Readings of time.strftime
Times == { "t1", "t2" }

\* What open(..., 'w') and json.dump can do to the file: written; not opened
\* (the old file stays); opened, so truncated, and then failed while dumping.
WriteOutcomes == { "ok", "open_failed", "broken" }

\* cache_key = f"{repo_name}#{tag_name}"
CacheKey(repo_name, tag_name) == repo_name \o <<"#">> \o tag_name

\* ReleaseAnalysis(...)
Analysis(release, llm_result, now) ==
    [class |-> "ReleaseAnalysis",
     tag_name |-> release.tag_name,
     repo_name |-> release.repo_name,
     features |-> llm_result,
     processed_body |-> release.body,
     analyzed_at |-> now]

\* ReleaseAnalysis.to_dict
ToDict(a) ==
    [tag_name |-> a.tag_name, repo_name |-> a.repo_name, features |-> a.features,
     processed_body |-> a.processed_body, analyzed_at |-> a.analyzed_at]

\* ReleaseAnalysis.from_dict
FromDict(d) ==
    [class |-> "ReleaseAnalysis", tag_name |-> d.tag_name, repo_name |-> d.repo_name,
     features |-> d.features, processed_body |-> d.processed_body,
     analyzed_at |-> d.analyzed_at]

File(state, entries) == [state |-> state, entries |-> entries]

\* load_analysis_cache: the entries as objects; {} when the file is missing
\* or json.load / from_dict fails
LoadAnalysisCache ==
    IF cache_file.state = "ok"
    THEN [k \in DOMAIN cache_file.entries |-> FromDict(cache_file.entries[k])]
    ELSE <<>>

\* save_analysis_to_cache: read the file as a dict ({} when missing or not
\* readable), set the entry, write the whole dict back; a failure of the
\* write is printed, not raised.
SaveAnalysisToCache(analysis, w) ==
    LET cache == IF cache_file.state = "ok" THEN cache_file.entries ELSE <<>>
        cache_key == CacheKey(analysis.repo_name, analysis.tag_name)
        new == (cache_key :> ToDict(analysis)) @@ cache
    IN CASE w = "ok" -> File("ok", new)
         [] w = "open_failed" -> cache_file
         [] OTHER -> File("corrupt", <<>>)

RCall(release, use_cache, llm_called, wrote, result) ==
    [op |-> "analyze", key |-> CacheKey(release.repo_name, release.tag_name),
     use_cache |-> use_cache, llm_called |-> llm_called, wrote |-> wrote,
     result |-> result]

RaisedInAnalyze == [class |-> "Exception"]

RelInit ==
    /\ cache_file \in { File("missing", <<>>), File("corrupt", <<>>), File("ok", <<>>) }
    /\ last = [op |-> "none"]
    /\ stored = <<>>
    /\ PullIdle
    /\ containers = [k \in {} |-> "absent"]
    /\ images = {}
    /\ mgr = [p \in Procs |-> NoManager]
    /\ pc = [p \in Procs |-> "none"]
    /\ ret = [p \in Procs |-> NoneV]
    /\ calls = [p \in Procs |-> <<>>]
    /\ committed = <<>>

\* analyze_release(release, repo_name, repo_readme, use_cache)
AnalyzeRelease ==
    /\ \E release \in Releases, use_cache \in BOOLEAN, llm_result \in LLMResults,
          now \in Times, w \in WriteOutcomes :
           LET cache_key == CacheKey(release.repo_name, release.tag_name)
               cache == IF use_cache THEN LoadAnalysisCache ELSE <<>>
               analysis == Analysis(release, llm_result, now)
           IN IF use_cache /\ cache_key \in DOMAIN cache
              THEN \* return cache[cache_key]
                   /\ last' = RCall(release, use_cache, FALSE, "no", cache[cache_key])
                   /\ UNCHANGED <<cache_file, stored>>
              ELSE IF llm_result = "not a dict"
              THEN \* llm_result.get raises AttributeError
                   /\ last' = RCall(release, use_cache, TRUE, "no", RaisedInAnalyze)
                   /\ UNCHANGED <<cache_file, stored>>
              ELSE IF use_cache
              THEN \* save_analysis_to_cache(analysis); return analysis
                   /\ last' = RCall(release, use_cache, TRUE, w, analysis)
                   /\ cache_file' = SaveAnalysisToCache(analysis, w)
                   /\ stored' = IF w = "ok" THEN (cache_key :> analysis) @@ stored
                                ELSE stored
              ELSE /\ last' = RCall(release, use_cache, TRUE, "no", analysis)
                   /\ UNCHANGED <<cache_file, stored>>
    /\ UNCHANGED <<cacheVars, pullVars>>

RelNext == AnalyzeRelease

SpecRel == RelInit /\ [][RelNext]_vars

----------------------------------------------------------------------------
(* Reading the call log *)

Count(p, op) == Cardinality({i \in DOMAIN calls[p] : calls[p][i].op = op})

\* An acquire of p has completed and its result is in ret[p].
Returned(p) == pc[p] = "acq_done"

\* What the container lookup of p's acquire answered: a status, "not_found" or "error".
LookupAnswer(p) ==
    IF InCall(p) /\ Len(calls[p]) >= 1 THEN calls[p][1].res ELSE "none"

\* What the image lookup of p's acquire answered ("none" when not made yet).
ImageAnswer(p) ==
    IF InCall(p) /\ \E i \in DOMAIN calls[p] : calls[p][i].op = "get_image"
    THEN calls[p][CHOOSE i \in DOMAIN calls[p] : calls[p][i].op = "get_image"].res
    ELSE "none"

\* The position of the first call of that kind in p's log (0 when there is none).
First(p, op) ==
    IF \E i \in DOMAIN calls[p] : calls[p][i].op = op
    THEN CHOOSE i \in DOMAIN calls[p] :
            /\ calls[p][i].op = op
            /\ \A j \in DOMAIN calls[p] : calls[p][j].op = op => i <= j
    ELSE 0

----------------------------------------------------------------------------
(* Claims *)

\* C1: for every starting daemon state and every outcome of the daemon calls,
\* a completed acquire either raised or returned a handle to a container the
\* daemon reports as running; it never returns an exited, created or otherwise
\* non-running container.
C1_ReturnedHandleIsRunning ==
    \A p \in DOMAIN pc :
        Returned(p) =>
            \/ IsRaised(ret[p])
            \/ /\ IsHandle(ret[p])
               /\ ret[p].v = mgr[p].repo
               /\ containers[ret[p].v] = "running"

\* C1 witness: an acquire that found its container exited has returned a handle.
C1_Witness ==
    \E p \in DOMAIN pc :
        Returned(p) /\ IsHandle(ret[p]) /\ LookupAnswer(p) = "exited"

\* C2: when the lookup finds the container running, acquire returns that
\* container and the lookup is the only daemon operation: no start, no
\* force-remove, no image lookup, no run, no build.
C2_RunningIsHotPath ==
    \A p \in DOMAIN pc :
        LookupAnswer(p) = "running" =>
            /\ Len(calls[p]) = 1
            /\ calls[p][1].op = "get_container"
            /\ calls[p][1].name = mgr[p].repo
            /\ pc[p] \in {"cc_ret", "acq_done"}
            /\ ret[p] = Handle(mgr[p].repo)
            /\ containers[mgr[p].repo] = "running"

\* C2 witness: an acquire that found a running container has returned.
C2_Witness ==
    \E p \in DOMAIN pc : Returned(p) /\ LookupAnswer(p) = "running"

\* C3: when the lookup finds the container exited, acquire issues exactly one
\* start on it and no force-remove, and once the start has succeeded it returns
\* a handle to that container, which the daemon reports as running.
C3_ExitedIsStartedOnce ==
    \A p \in DOMAIN pc :
        LookupAnswer(p) = "exited" =>
            /\ Count(p, "remove") = 0
            /\ Count(p, "start") = (IF pc[p] = "cc_start" THEN 0 ELSE 1)
            /\ pc[p] # "cc_start" =>
                  /\ calls[p][2].op = "start"
                  /\ calls[p][2].name = mgr[p].repo
                  /\ calls[p][2].res = "ok" =>
                        /\ Len(calls[p]) = 2
                        /\ ret[p] = Handle(mgr[p].repo)
                        /\ containers[mgr[p].repo] = "running"
                        /\ pc[p] \in {"cc_ret", "acq_done"}

\* C3 witness: an acquire that found an exited container and started it has returned.
C3_Witness ==
    \E p \in DOMAIN pc :
        /\ Returned(p)
        /\ LookupAnswer(p) = "exited"
        /\ calls[p][2].res = "ok"

\* C4: when the lookup finds the container in a status that is neither running
\* nor exited, acquire issues exactly one force-remove of that container and no
\* start, and the image lookup for the manager's image key comes only after the
\* removal (with the container gone once the removal has succeeded).
C4_AbnormalIsRemovedThenImageLookup ==
    \A p \in DOMAIN pc :
        LookupAnswer(p) \in AbnormalStatuses =>
            /\ Count(p, "start") = 0
            /\ Count(p, "remove") = (IF pc[p] = "cc_remove" THEN 0 ELSE 1)
            /\ pc[p] # "cc_remove" =>
                  /\ calls[p][2].op = "remove"
                  /\ calls[p][2].name = mgr[p].repo
                  /\ First(p, "get_image") \in {0, 3}
                  /\ (calls[p][2].res = "ok" /\ pc[p] \in {"cc_ret", "ci_get", "ci_ret"})
                        => containers[mgr[p].repo] = "absent"
            /\ pc[p] \notin {"cc_remove", "cc_ret", "ci_get"} =>
                  /\ Count(p, "get_image") = 1
                  /\ calls[p][3].op = "get_image"
                  /\ calls[p][3].image =
                        <<"featbench_">> \o mgr[p].repo_lower \o <<":", mgr[p].repo_id>>

\* C4 witness: an abnormal container was removed and the image lookup was made.
C4_Witness ==
    \E p \in DOMAIN pc :
        /\ LookupAnswer(p) \in AbnormalStatuses
        /\ Count(p, "remove") = 1
        /\ Count(p, "get_image") = 1
        /\ Returned(p)

\* C5: when the lookups find no container and find the cached image, acquire
\* issues exactly one run, from exactly the image key it looked up and under
\* the container key, and never invokes the Build Trigger.
C5_CachedImageIsRunWithoutBuild ==
    \A p \in DOMAIN pc :
        (Returned(p) /\ LookupAnswer(p) = "not_found" /\ ImageAnswer(p) = "ok") =>
            /\ Count(p, "build") = 0
            /\ Count(p, "run") = 1
            /\ Len(calls[p]) = 3
            /\ calls[p][3].op = "run"
            /\ calls[p][3].image = calls[p][2].image
            /\ calls[p][3].image =
                  <<"featbench_">> \o mgr[p].repo_lower \o <<":", mgr[p].repo_id>>
            /\ calls[p][3].name = mgr[p].repo
            /\ calls[p][3].res = "ok" =>
                  ret[p] = Handle(mgr[p].repo) /\ containers[mgr[p].repo] = "running"

\* C5 witness: a container was run from the cached image of a repository whose
\* name has an upper-case letter.
C5_Witness ==
    \E p \in DOMAIN pc :
        /\ Returned(p)
        /\ LookupAnswer(p) = "not_found"
        /\ ImageAnswer(p) = "ok"
        /\ calls[p][3].res = "ok"
        /\ mgr[p].repo # mgr[p].repo_lower

\* C6: when the lookups find neither container nor image, acquire invokes the
\* Build Trigger exactly once, runs exactly one container from the reference the
\* build returned under the container key (none when the build failed), and
\* commits nothing: the image key looked up is still absent afterwards.
C6_FullMissBuildsOnceAndRuns ==
    \A p \in DOMAIN pc :
        (Returned(p) /\ LookupAnswer(p) = "not_found" /\ ImageAnswer(p) = "not_found") =>
            /\ Count(p, "build") = 1
            /\ Count(p, "commit") = 0
            /\ calls[p][2].image \notin images
            /\ calls[p][3].op = "build"
            /\ calls[p][3].name = mgr[p].repo
            /\ IF calls[p][3].res = "ok"
               THEN /\ Count(p, "run") = 1
                    /\ Len(calls[p]) = 4
                    /\ calls[p][4].op = "run"
                    /\ calls[p][4].image = calls[p][3].image
                    /\ calls[p][4].name = mgr[p].repo
               ELSE /\ Count(p, "run") = 0
                    /\ Len(calls[p]) = 3

\* C6 witness: after a full miss, the build succeeded and its image was run.
C6_Witness ==
    \E p \in DOMAIN pc :
        /\ Returned(p)
        /\ LookupAnswer(p) = "not_found"
        /\ ImageAnswer(p) = "not_found"
        /\ Len(calls[p]) = 4
        /\ calls[p][4].res = "ok"

\* C7: round trip: after a checkpoint by a manager for (R, T2) succeeded, an
\* acquire for (R, T2) whose lookups find no container finds the image the
\* checkpoint wrote (commit target key = lookup key) and runs a container from
\* it; the Build Trigger is not invoked.
C7_CheckpointThenAcquireUsesImage ==
    \A p \in DOMAIN pc :
        (/\ Returned(p)
         /\ committed = <<mgr[p].repo, mgr[p].repo_id>>
         /\ LookupAnswer(p) = "not_found"
         /\ ImageAnswer(p) # "error") =>
            /\ ImageAnswer(p) = "ok"
            /\ Count(p, "build") = 0
            /\ Count(p, "run") = 1
            /\ calls[p][3].image = calls[p][2].image

\* C7 witness: a checkpoint succeeded, the container was removed, and the next
\* acquire for the same repository and task id ran a container from the image.
C7_Witness ==
    \E p \in DOMAIN pc :
        /\ Returned(p)
        /\ committed = <<mgr[p].repo, mgr[p].repo_id>>
        /\ LookupAnswer(p) = "not_found"
        /\ ImageAnswer(p) = "ok"
        /\ IsHandle(ret[p])
        /\ mgr[p].repo # mgr[p].repo_lower

\* C8: a transport error of the container lookup ends the acquire with that
\* error: no image lookup, run or build follows it.
C8_LookupErrorIsSurfaced ==
    \A p \in DOMAIN pc :
        LookupAnswer(p) = "error" =>
            /\ Len(calls[p]) = 1
            /\ pc[p] = "acq_done" => IsRaised(ret[p])

\* C9: a transport error of the image lookup is surfaced: neither the Build
\* Trigger nor a run follows it.
C9_ImageErrorIsSurfaced ==
    \A p \in DOMAIN pc :
        ImageAnswer(p) = "error" =>
            /\ Count(p, "build") = 0
            /\ Count(p, "run") = 0

\* C10: a run naming the container key is issued only when the daemon holds no
\* container of that name: no run ever ends in a name conflict.
C10_RunNeverConflicts ==
    \A p \in DOMAIN pc :
        \A i \in DOMAIN calls[p] :
            calls[p][i].op = "run" => calls[p][i].res # "conflict"

----------------------------------------------------------------------------
(* Checkpoint claims *)

\* The step of p is a call of save_container_as_image.
SaveStep(p) == pc[p] = "ready" /\ pc'[p] = "ckpt_done"

\* The last call p's manager issued, after the step.
LastCall(p) == calls'[p][Len(calls'[p])]

\* The image key featbench_{imageNamespace}:{taskId} of p's manager.
TargetKey(p) == <<"featbench_">> \o mgr[p].repo_lower \o <<":", mgr[p].repo_id>>

\* C11: an image stored under a key is never overwritten: a checkpoint whose
\* target key already holds an image commits nothing over it and reports a
\* non-fatal "already cached" outcome.
C11_ImageNeverOverwritten ==
    [][\A p \in DOMAIN pc :
          (SaveStep(p) /\ TargetKey(p) \in images) =>
              /\ ~(LastCall(p).op = "commit" /\ LastCall(p).res = "ok")
              /\ ret'[p].kind = "AlreadyCached"]_vars

\* C12: a successful checkpoint of a running container puts an image at the
\* key featbench_{imageNamespace}:{taskId} and changes nothing else: every
\* container keeps its status (the source is still running; nothing is started
\* or removed) and every other image key is as before.
C12_CheckpointFrame ==
    [][\A p \in DOMAIN pc :
          (/\ SaveStep(p)
           /\ containers[ret[p].v] = "running"
           /\ LastCall(p).res = "ok") =>
              /\ images' = images \cup {TargetKey(p)}
              /\ containers' = containers
              /\ calls'[p] = Append(calls[p], LastCall(p))
              /\ LastCall(p).op = "commit"
              /\ LastCall(p).name = ret[p].v
              /\ ret'[p] = ImageId(TargetKey(p))]_vars

\* C12 witness: a checkpoint by a manager whose repository name has an
\* upper-case letter succeeded and its source container is running.
C12_Witness ==
    \E p \in DOMAIN pc :
        /\ pc[p] = "ckpt_done"
        /\ ret[p].kind = "ImageId"
        /\ mgr[p].repo # mgr[p].repo_lower
        /\ containers[calls[p][Len(calls[p])].name] = "running"

----------------------------------------------------------------------------
(* Key derivation claims (SpecKeys) *)

\* The arguments p's manager was constructed with.
ArgRepo(p) == calls[p][1].name
ArgTask(p) == calls[p][1].image[1]

\* Upper-case letters of the names and their lower-case forms.
LowerPairs == { <<"O", "o">>, <<"D", "d">>, <<"P", "p">>, <<"Q", "q">> }

\* key is name with every "/" replaced by "_" and everything else kept.
IsContainerKeyOf(key, name) ==
    /\ Len(key) = Len(name)
    /\ \A i \in DOMAIN name :
          key[i] = (IF name[i] = "/" THEN "_" ELSE name[i])

\* ref is "featbench_" + lowercase(key) + ":" + task.
IsImageKeyOf(ref, key, task) ==
    /\ Len(ref) = Len(key) + 3
    /\ ref[1] = "featbench_"
    /\ ref[Len(ref) - 1] = ":"
    /\ ref[Len(ref)] = task
    /\ \A i \in DOMAIN key :
          IF \E pr \in LowerPairs : pr[1] = key[i]
          THEN <<key[i], ref[i + 1]>> \in LowerPairs
          ELSE ref[i + 1] = key[i]

Octocat == <<"o", "c", "t", "o", "c", "a", "t", "/", "d", "e", "m", "o">>

\* C13: the container key is the repository name with every "/" replaced by
\* "_" (case preserved), and the image key used for lookup, for run-from-image
\* and as commit target is "featbench_" + lowercase(container key) + ":" + T;
\* "octocat/demo" with "42" gives "octocat_demo" and "featbench_octocat_demo:42".
C13_KeyDerivation ==
    \A p \in DOMAIN pc :
        /\ pc[p] \in {"k_ready", "k_done"} =>
              /\ IsContainerKeyOf(mgr[p].repo, ArgRepo(p))
              /\ mgr[p].repo_id = ArgTask(p)
              /\ ArgRepo(p) = Octocat =>
                    mgr[p].repo = <<"o", "c", "t", "o", "c", "a", "t", "_", "d", "e", "m", "o">>
        /\ pc[p] = "k_done" =>
              /\ \A i \in 2..4 :
                    /\ IsImageKeyOf(calls[p][i].image, mgr[p].repo, ArgTask(p))
                    /\ (ArgRepo(p) = Octocat /\ ArgTask(p) = "42") =>
                          calls[p][i].image =
                             <<"featbench_", "o", "c", "t", "o", "c", "a", "t", "_",
                               "d", "e", "m", "o", ":", "42">>
              /\ calls[p][2].op = "get_image"
              /\ calls[p][3].op = "run"
              /\ calls[p][3].name = mgr[p].repo
              /\ calls[p][4].op = "commit"

\* C13 witness: the names of the manager for "octocat/demo", "42" were computed,
\* as were those of a manager whose repository name has an upper-case letter.
C13_Witness ==
    \E p, q \in DOMAIN pc :
        /\ pc[p] = "k_done" /\ ArgRepo(p) = Octocat /\ ArgTask(p) = "42"
        /\ pc[q] = "k_done" /\ ArgRepo(q) = <<"P", "/", "q">>

\* C14: two managers constructed for distinct repository names never hold the
\* same container key (a collision would be raised at construction instead).
C14_ContainerKeyInjective ==
    \A p, q \in DOMAIN pc :
        (/\ pc[p] \in {"k_ready", "k_done"}
         /\ pc[q] \in {"k_ready", "k_done"}
         /\ ArgRepo(p) # ArgRepo(q)) =>
            mgr[p].repo # mgr[q].repo

----------------------------------------------------------------------------
(* Failure claims of the acquire *)

\* p's log holds a call of op that answered res.
Answered(p, op, res) ==
    \E i \in DOMAIN calls[p] : calls[p][i].op = op /\ calls[p][i].res = res

\* C15: when the build fails, the acquire fails with the build failure itself,
\* the build was tried once and is the last call, no run was issued, and a
\* container key the call saw absent (or removed) is still absent.
C15_BuildFailureSurfaced ==
    \A p \in DOMAIN pc :
        (Returned(p) /\ Answered(p, "build", "error")) =>
            /\ ret[p] = Raised("BuildFailure")
            /\ Count(p, "build") = 1
            /\ calls[p][Len(calls[p])].op = "build"
            /\ Count(p, "run") = 0
            /\ ~Answered(p, "start", "ok")
            /\ (LookupAnswer(p) = "not_found" \/ Answered(p, "remove", "ok")) =>
                  containers[mgr[p].repo] = "absent"

\* C15 witness: a full miss whose build failed.
C15_Witness ==
    \E p \in DOMAIN pc :
        /\ Returned(p)
        /\ Answered(p, "build", "error")
        /\ LookupAnswer(p) = "not_found"
        /\ ImageAnswer(p) = "not_found"
        /\ IsRaised(ret[p])

\* C17: after a failed start of an exited container the acquire force-removes
\* the container before it goes on to the image lookup.
C17_FailedStartIsRemoved ==
    \A p \in DOMAIN pc :
        (InCall(p) /\ Answered(p, "start", "error") /\ Count(p, "get_image") >= 1) =>
            /\ Count(p, "remove") = 1
            /\ First(p, "remove") < First(p, "get_image")

\* C18: after a failed force-remove the acquire issues no image lookup, no run
\* and no build, and ends with the error raised to the caller.
C18_FailedRemoveIsSurfaced ==
    \A p \in DOMAIN pc :
        (InCall(p) /\ Answered(p, "remove", "error")) =>
            /\ Count(p, "get_image") = 0
            /\ Count(p, "run") = 0
            /\ Count(p, "build") = 0
            /\ Returned(p) => IsRaised(ret[p])

----------------------------------------------------------------------------
(* Concurrency claim (SpecConc) *)

\* The next step of p's acquire, whichever it is.
AcquireStep(p) ==
    \/ Acquire_Start(p)
    \/ CC_Get(p)
    \/ CC_Start(p)
    \/ CC_Remove(p)
    \/ Acquire_AfterContainer(p)
    \/ CI_Get(p)
    \/ Acquire_AfterImage(p)
    \/ CF_Run(p)
    \/ CN_Build(p)
    \/ CN_Run(p)

\* A caller whose acquire has not returned can always take its next step.
NeverBlocked ==
    \A p \in DOMAIN pc : pc[p] # "acq_done" => ENABLED AcquireStep(p)

\* What caller q's acquire reads at the daemon.
SeenBy(q, cs, is) ==
    << cs[mgr[q].repo],
       CachedImageName(mgr[q]) \in is,
       BuildRef(mgr[q].repo) \in is >>

\* A step of p changes nothing of q: not its position, result or log, and
\* nothing its daemon calls read.
StepLeavesOtherAlone ==
    \A p, q \in DOMAIN pc :
        (pc'[p] # pc[p] /\ q # p) =>
            /\ pc'[q] = pc[q]
            /\ ret'[q] = ret[q]
            /\ calls'[q] = calls[q]
            /\ SeenBy(q, containers', images') = SeenBy(q, containers, images)

\* C16: two acquires for different container keys, interleaved in any way,
\* never wait for each other, and no step of one changes the position, log or
\* result of the other or anything the other's daemon calls read.
C16_ConcurrentAcquiresIndependent ==
    []NeverBlocked /\ [][StepLeavesOtherAlone]_vars

\* C16 witness: both acquires are under way, each with daemon calls made, and
\* one of them has created its container.
C16_Witness ==
    /\ \A p \in DOMAIN pc : InAcquire(p) /\ Len(calls[p]) >= 1
    /\ mgr[1].repo # mgr[2].repo
    /\ \E p \in DOMAIN pc : Answered(p, "build", "ok")

----------------------------------------------------------------------------
(* No memory between calls (SpecExt) *)

\* What a lookup of container k answers from the daemon's state alone.
DaemonSays(k) == IF containers[k] = "absent" THEN "not_found" ELSE containers[k]

\* An answered container lookup reports the daemon's state at that moment,
\* and the branch taken follows from that answer.
ContainerLookupIsFresh ==
    \A p \in DOMAIN pc :
        (pc[p] = "cc_get" /\ pc'[p] # "cc_get") =>
            /\ calls'[p] = Append(calls[p], LastCall(p))
            /\ LastCall(p).op = "get_container"
            /\ LastCall(p).name = mgr[p].repo
            /\ LastCall(p).res # "error" =>
                  /\ LastCall(p).res = DaemonSays(mgr[p].repo)
                  /\ pc'[p] = (CASE LastCall(p).res \in {"running", "not_found"} -> "cc_ret"
                                 [] LastCall(p).res = "exited" -> "cc_start"
                                 [] OTHER -> "cc_remove")

\* An answered image lookup reports whether the daemon holds the key now.
ImageLookupIsFresh ==
    \A p \in DOMAIN pc :
        (pc[p] = "ci_get" /\ pc'[p] # "ci_get") =>
            /\ calls'[p] = Append(calls[p], LastCall(p))
            /\ LastCall(p).op = "get_image"
            /\ LastCall(p).image = TargetKey(p)
            /\ LastCall(p).res # "error" =>
                  /\ LastCall(p).res = (IF TargetKey(p) \in images THEN "ok" ELSE "not_found")
                  /\ ret'[p] = (IF TargetKey(p) \in images THEN TrueV ELSE FalseV)

\* Every acquire opens with a container lookup, and none runs or builds
\* without an image lookup of its own.
EveryAcquireAsksAgain ==
    \A p \in DOMAIN pc :
        (InCall(p) /\ pc[p] # "cc_get") =>
            /\ First(p, "get_container") = 1
            /\ (Count(p, "run") + Count(p, "build") >= 1) => Count(p, "get_image") = 1

\* C20: whatever an earlier call saw or did and whatever other actors changed
\* since, each acquire asks the daemon again and its lookups answer, and
\* branch on, the daemon's state at the time of the lookup.
C20_NoMemoryBetweenCalls ==
    /\ []EveryAcquireAsksAgain
    /\ [][ContainerLookupIsFresh /\ ImageLookupIsFresh]_vars

\* C20 witness: the manager's own checkpoint put the image under its key, the
\* image was removed from outside, and the next acquire's lookup did not find
\* it and went on to build.
C20_Witness ==
    \E p \in DOMAIN pc :
        /\ committed = <<mgr[p].repo, mgr[p].repo_id>>
        /\ Returned(p)
        /\ ImageAnswer(p) = "not_found"
        /\ Answered(p, "build", "ok")

----------------------------------------------------------------------------
(* Removal and exception claims (SpecExt), image key sharing (SpecKeys) *)

\* A remove call is in the log only right after a lookup that answered a
\* status other than running and exited.
RemoveOnlyAfterAbnormal ==
    \A p \in DOMAIN pc :
        Count(p, "remove") >= 1 =>
            /\ Count(p, "remove") = 1
            /\ First(p, "remove") = 2
            /\ calls[p][1].op = "get_container"
            /\ calls[p][1].res \in ExistingStatuses \ {"running", "exited"}

\* A container that disappears in a step of the manager was in a status other
\* than running and exited, and the step is the manager's force-remove.
ManagerRemovesOnlyAbnormal ==
    \A p \in DOMAIN pc : \A k \in DOMAIN containers :
        (pc'[p] # pc[p] /\ containers[k] # "absent" /\ containers'[k] = "absent") =>
            /\ containers[k] \notin {"running", "exited"}
            /\ k = mgr[p].repo
            /\ LastCall(p).op = "remove"
            /\ calls[p][1].res = containers[k]

\* C21: over any sequence of acquires and checkpoints the manager force-removes
\* a container only when its lookup found it neither running nor exited; one
\* found running or exited is never removed by the manager.
C21_RemovesOnlyAbnormal ==
    /\ []RemoveOnlyAfterAbnormal
    /\ [][ManagerRemovesOnlyAbnormal]_vars

\* C21 witness: a paused container was looked up and force-removed.
C21_Witness ==
    \E p \in DOMAIN pc :
        /\ calls[p] # <<>>
        /\ calls[p][1].res = "paused"
        /\ Answered(p, "remove", "ok")
        /\ containers[mgr[p].repo] = "absent"

\* C22: check_cached_container ends with a handle or None and
\* check_cached_image with True or False, whatever the daemon calls did.
C22_LookupsNeverRaise ==
    \A p \in DOMAIN pc :
        /\ pc[p] = "cc_ret" => ret[p] \in {NoneV, Handle(mgr[p].repo)}
        /\ pc[p] = "ci_ret" => ret[p] \in {TrueV, FalseV}

\* C22 witness: the start of an exited container failed, the acquire went on,
\* and the image lookup failed with an error too.
C22_Witness ==
    \E p \in DOMAIN pc :
        /\ pc[p] = "ci_ret"
        /\ Answered(p, "start", "error")
        /\ Answered(p, "get_image", "error")
        /\ ret[p] = FalseV

\* C23: two managers with different container keys and the same task id never
\* use the same image key, so neither looks up what the other commits.
C23_ImageKeysDisjoint ==
    \A p, q \in DOMAIN pc :
        (/\ pc[p] = "k_done"
         /\ pc[q] = "k_done"
         /\ mgr[p].repo # mgr[q].repo
         /\ mgr[p].repo_id = mgr[q].repo_id) =>
            calls[p][4].image # calls[q][2].image

----------------------------------------------------------------------------
(* Pull script claims (SpecPull) *)

\* The calls of that kind _process_one(img) issued in this run.
DCount(img, op) == Cardinality({ i \in DOMAIN dlog[img] : dlog[img][i].op = op })

\* How often the main loop printed a result for img.
ReportCount(img) == Cardinality({ i \in DOMAIN reported : reported[i][1] = img })

\* C25: an image whose local tag the lookup found is processed with no pull
\* and no tag call and with success; an image processed with success outside
\* a dry run has its local tag; and a second run issues no pull and no tag
\* for the images the first run processed with success.
C25_PullIsIdempotent ==
    \A img \in DOMAIN tasks :
        /\ (dlog[img] # <<>> /\ dlog[img][1] = DCall("get", img, "found")) =>
              /\ Len(dlog[img]) = 1
              /\ tasks[img].st = "done"
              /\ tasks[img].success
              /\ \A i \in DOMAIN reported : reported[i][1] = img => reported[i][2]
        /\ (tasks[img].st = "done" /\ tasks[img].success /\ ~args.dry_run) =>
              img \in images
        /\ (run = 2 /\ img \in first_ok) =>
              /\ DCount(img, "pull") = 0
              /\ DCount(img, "tag") = 0
              /\ tasks[img].st = "done" => tasks[img].success

\* C25 witness: the first run pulled and tagged an image, and the second run
\* found its local tag and finished with status 0.
C25_Witness ==
    \E img \in DOMAIN tasks :
        /\ run = 2
        /\ main = "exited"
        /\ exit_code = 0
        /\ img \in first_ok
        /\ img[1] = "featbench_"
        /\ BuildRemoteName(img) \in images
        /\ dlog[img] = <<DCall("get", img, "found")>>

\* C26: when a run that submitted its tasks has exited, every image of the
\* dataset was processed once and its result was printed once, and the exit
\* status is 1 exactly when an image failed.
C26_EveryImageReportedOnce ==
    (main = "exited" /\ tasks # <<>>) =>
        /\ DOMAIN tasks = ParseDataset(dataset)
        /\ \A img \in DOMAIN tasks :
              /\ tasks[img].st \in {"done", "raised"}
              /\ DCount(img, "get") <= 1
              /\ DCount(img, "pull") <= 1
              /\ DCount(img, "tag") <= 1
              /\ ReportCount(img) = 1
        /\ exit_code = 1 <=> \E img \in DOMAIN tasks : ~tasks[img].success

----------------------------------------------------------------------------
(* Pull script and cache manager together (SpecPullAcq) *)

\* The instances the script computes a name for.
Computed == { i \in dataset : i.docker_image = <<>> /\ i.repo # <<>> /\ i.number # 0 }

\* The instance is the one p's manager was constructed for.
ManagerOf(p, i) ==
    mgr[p] = NewManager(i.repo, ToString(i.number))

\* C24: for an instance with repo and number and no docker_image the name
\* the script computes is the image key of CacheManager(repo, number); when
\* the script pulled and tagged it, the image lookup of an acquire for that
\* manager finds it and the acquire builds nothing.
C24_PulledImageIsFound ==
    \A i \in Computed :
        /\ ImageShort(i.repo, i.number) \in DOMAIN tasks \/ tasks = <<>>
        /\ ImageShort(i.repo, i.number) =
              <<"featbench_">> \o NewManager(i.repo, ToString(i.number)).repo_lower
                 \o <<":", NewManager(i.repo, ToString(i.number)).repo_id>>
        /\ \A p \in DOMAIN pc :
              (/\ ManagerOf(p, i)
               /\ tasks # <<>>
               /\ tasks[ImageShort(i.repo, i.number)].st = "done"
               /\ tasks[ImageShort(i.repo, i.number)].success
               /\ ~args.dry_run
               /\ ImageAnswer(p) \in {"ok", "not_found"}) =>
                  /\ ImageAnswer(p) = "ok"
                  /\ Count(p, "build") = 0
                  /\ \A j \in DOMAIN calls[p] :
                        calls[p][j].op \in {"get_image", "run"} =>
                            calls[p][j].image = ImageShort(i.repo, i.number)

\* C24 witness: the script pulled and tagged the image of P/q, 2, and an
\* acquire for CacheManager("P/q", "2") found it and ran a container from it.
C24_Witness ==
    \E p \in DOMAIN pc : \E i \in Computed :
        /\ i.repo = <<"P", "/", "q">>
        /\ ManagerOf(p, i)
        /\ tasks # <<>>
        /\ DCount(ImageShort(i.repo, i.number), "tag") = 1
        /\ tasks[ImageShort(i.repo, i.number)].success
        /\ Returned(p)
        /\ ImageAnswer(p) = "ok"
        /\ Answered(p, "run", "ok")

----------------------------------------------------------------------------
(* Release-analysis cache claim (SpecRel) *)

\* A call with use_cache for a key that an earlier call returned and wrote
\* gives back that analysis, asks no LLM and leaves the file as it is.
StoredIsServed ==
    (last'.use_cache /\ last'.key \in DOMAIN stored) =>
        /\ last'.result = stored[last'.key]
        /\ ~last'.llm_called
        /\ cache_file' = cache_file

\* A save into a readable file keeps every entry under another key.
SaveKeepsOthers ==
    (cache_file.state = "ok" /\ last'.wrote = "ok") =>
        /\ cache_file'.state = "ok"
        /\ \A k \in DOMAIN cache_file.entries \ {last'.key} :
              /\ k \in DOMAIN cache_file'.entries
              /\ cache_file'.entries[k] = cache_file.entries[k]

\* C27: once analyze_release(use_cache=True) returned for (repo, tag) and the
\* cache file was written, every later analyze_release(use_cache=True) for
\* the same (repo, tag) returns the stored analysis without the LLM and
\* without a write; and a save leaves the other entries of a readable cache
\* file unchanged.
C27_CachedAnalysisIsServed ==
    [][StoredIsServed /\ SaveKeepsOthers]_vars

====
